---- MODULE Spec2Model ----
(***************************************************************************)
(* A model of cpp/utils.cpp of dolfinx_mpc. Each function is a              *)
(* specification of its own over its group of variables:                   *)
(*   SpecComms    create_neighborhood_comms, ranks stepping through the    *)
(*                collectives;                                             *)
(*   SpecPattern  create_matrix and create_sparsity_pattern, on one rank;  *)
(*   SpecFacet    create_block_to_facet_map, on one rank;                  *)
(*   SpecOwner    create_owner_to_ghost_comm, ranks sharing an index map;  *)
(*   SpecNormal   create_normal_approximation, ranks exchanging ghosts;    *)
(*   SpecQuery    tabulate_dof_coordinates and evaluate_basis_functions;   *)
(*   SpecCellMap  create_block_to_cell_map, on one rank.                   *)
(***************************************************************************)
EXTENDS Integers, Sequences, FiniteSets, TLC

\* ------------------------------------------------------------------ bounds
\* Largest communicator size that is explored (MPI_Comm_size).
MaxRanks == 4
\* Number of local cells of the mesh the sparsity pattern is built on.
NumCells == 4
\* Largest number of master entries (summed over its slaves) of one constraint.
MaxMasters == 2
\* Longest entity list passed to create_block_to_facet_map.
MaxEntities == 3
\* Longest block list passed to create_owner_to_ghost_comm.
MaxBlocksArg == 2
\* Largest number of points, cells or dofs passed to the two queries.
MaxPoints == 2
\* Longest block list passed to create_block_to_cell_map.
MaxBlockList == 3

\* ------------------------------------------------------------------ state
VARIABLES
    \* --- create_neighborhood_comms, one entry per rank of the communicator
    mpi_size,            \* MPI_Comm_size(comm)
    has_slave,           \* argument has_slave of each rank
    meshtags_values,     \* meshtags.values() of each rank
    pc,                  \* position of each rank in the function
    has_slaves,          \* send buffer of the second all-to-all
    has_masters,         \* send buffer of the first all-to-all
    procs_with_masters,  \* receive buffer of the first all-to-all
    procs_with_slaves,   \* receive buffer of the second all-to-all
    source_edges,
    dest_edges,
    comms,               \* the returned std::array<MPI_Comm, 2>
    arrived,             \* collective -> the ranks that have called it
    calls,               \* the collectives each rank has called, in order
    \* --- create_sparsity_pattern, on one rank
    form_rank,           \* a.rank()
    mpcs,                \* the MultiPointConstraint objects, by address
    mpc0,                \* address held by the shared_ptr mpc0
    mpc1,                \* address held by the shared_ptr mpc1
    pattern,             \* entries (row block, column block) of the pattern
    traversals,          \* entries inserted by each pattern_populator call
    ppc,                 \* position in create_matrix / create_sparsity_pattern
    type,                \* argument type of create_matrix
    events,              \* the operations performed so far, in order
    assembled,           \* whether pattern.assemble() has completed
    matrix,              \* the la::petsc::Matrix that is allocated
    \* --- create_block_to_facet_map, on one rank
    space,               \* the function space V (dofmap, closure dofs, blocks)
    entities,            \* argument entities
    ndebug,              \* whether the build defines NDEBUG (asserts removed)
    fpc,                 \* position in create_block_to_facet_map
    fi,                  \* loop index i of the current pass
    cells,               \* cells[i] of the first pass
    local_indices,       \* local_indices[i] of the first pass
    num_facets_per_dof,  \* the per-block counter, reused as write cursor
    offsets,
    data,
    writes,              \* the slots written by the second pass, in order
    \* --- create_owner_to_ghost_comm, one entry per rank
    owner,               \* index map: the owning rank of each global block
    ghosters,            \* index map: the ranks holding a ghost of each block
    local_blocks,        \* argument local_blocks of each rank
    ghost_blocks,        \* argument ghost_blocks of each rank
    og_source_edges,     \* the vector source_edges of each rank
    og_dest_edges,       \* the vector dest_edges of each rank
    comm_loc,            \* the communicator returned to each rank
    opc,                 \* position of each rank in the function
    \* --- create_normal_approximation, one entry per rank
    normals,             \* the summed facet normals of each local block
    nh,                  \* the local array _n of the returned function
    npc,                 \* position of each rank in the function
    \* --- tabulate_dof_coordinates and evaluate_basis_functions
    query,               \* which of the two functions is called
    qarg,                \* what the function reads of its arguments
    qpc,                 \* position in the function
    result,               \* the array the function builds
    \* --- create_block_to_cell_map, on one rank
    cspace,              \* the function space V (dofmap, index maps)
    blocks_in,           \* argument blocks
    cpc,                 \* position in create_block_to_cell_map
    ci,                  \* index of the current loop
    num_cells_per_dof,   \* the per-block counter, reused as write cursor
    cell_dofs_disp,
    cell_map,
    cells_out            \* the vector cells that is returned

commVars == <<mpi_size, has_slave, meshtags_values, pc, has_slaves, has_masters,
              procs_with_masters, procs_with_slaves, source_edges, dest_edges,
              comms, arrived, calls>>

patternVars == <<form_rank, mpcs, mpc0, mpc1, pattern, traversals, ppc, type,
                 events, assembled, matrix>>

facetVars == <<space, entities, ndebug, fpc, fi, cells, local_indices,
               num_facets_per_dof, offsets, data, writes>>

ownerVars == <<owner, ghosters, local_blocks, ghost_blocks, og_source_edges,
               og_dest_edges, comm_loc, opc>>

normalVars == <<normals, nh, npc>>

queryVars == <<query, qarg, qpc, result>>

cellVars == <<cspace, blocks_in, cpc, ci, num_cells_per_dof, cell_dofs_disp,
              cell_map, cells_out>>

vars == <<commVars, patternVars, facetVars, ownerVars, normalVars, queryVars,
          cellVars>>

\* Each specification runs one function; the state of the other is idle.
IdleComms ==
    /\ mpi_size = 0
    /\ has_slave = <<>> /\ meshtags_values = <<>> /\ pc = <<>>
    /\ has_slaves = <<>> /\ has_masters = <<>>
    /\ procs_with_masters = <<>> /\ procs_with_slaves = <<>>
    /\ source_edges = <<>> /\ dest_edges = <<>> /\ comms = <<>>
    /\ arrived = <<>> /\ calls = <<>>

IdlePattern ==
    /\ form_rank = 2
    /\ mpcs = <<>>
    /\ mpc0 = 1 /\ mpc1 = 1
    /\ pattern = {}
    /\ traversals = <<>>
    /\ ppc = "idle"
    /\ type = ""
    /\ events = <<>>
    /\ assembled = FALSE
    /\ matrix = [null |-> TRUE]

IdleFacet ==
    /\ space = <<>>
    /\ entities = <<>>
    /\ ndebug = FALSE
    /\ fpc = "idle"
    /\ fi = 0
    /\ cells = <<>> /\ local_indices = <<>>
    /\ num_facets_per_dof = <<>> /\ offsets = <<>> /\ data = <<>>
    /\ writes = <<>>

IdleOwner ==
    /\ owner = <<>> /\ ghosters = <<>>
    /\ local_blocks = <<>> /\ ghost_blocks = <<>>
    /\ og_source_edges = <<>> /\ og_dest_edges = <<>>
    /\ comm_loc = <<>>
    /\ opc = <<>>

IdleNormal == normals = <<>> /\ nh = <<>> /\ npc = <<>>

IdleQuery == query = "" /\ qarg = <<>> /\ qpc = "idle" /\ result = [null |-> TRUE]

IdleCellMap ==
    /\ cspace = <<>>
    /\ blocks_in = <<>>
    /\ cpc = "idle"
    /\ ci = 0
    /\ num_cells_per_dof = <<>> /\ cell_dofs_disp = <<>> /\ cell_map = <<>>
    /\ cells_out = <<>>

\* The variables a specification leaves alone, and their idle values.
nonCommVars == <<patternVars, facetVars, ownerVars, normalVars, queryVars,
    cellVars>>
nonPatternVars == <<commVars, facetVars, ownerVars, normalVars, queryVars,
    cellVars>>
nonFacetVars == <<commVars, patternVars, ownerVars, normalVars, queryVars,
    cellVars>>
nonOwnerVars == <<commVars, patternVars, facetVars, normalVars, queryVars,
    cellVars>>
nonNormalVars == <<commVars, patternVars, facetVars, ownerVars, queryVars,
    cellVars>>
nonQueryVars == <<commVars, patternVars, facetVars, ownerVars, normalVars,
    cellVars>>
nonCellVars == <<commVars, patternVars, facetVars, ownerVars, normalVars,
    queryVars>>
IdleNonComms == IdlePattern /\ IdleFacet /\ IdleOwner /\ IdleNormal
    /\ IdleQuery /\ IdleCellMap
IdleNonPattern == IdleComms /\ IdleFacet /\ IdleOwner /\ IdleNormal
    /\ IdleQuery /\ IdleCellMap
IdleNonFacet == IdleComms /\ IdlePattern /\ IdleOwner /\ IdleNormal
    /\ IdleQuery /\ IdleCellMap
IdleNonOwner == IdleComms /\ IdlePattern /\ IdleFacet /\ IdleNormal
    /\ IdleQuery /\ IdleCellMap
IdleNonNormal == IdleComms /\ IdlePattern /\ IdleFacet /\ IdleOwner
    /\ IdleQuery /\ IdleCellMap
IdleNonQuery == IdleComms /\ IdlePattern /\ IdleFacet /\ IdleOwner
    /\ IdleNormal /\ IdleCellMap
IdleNonCellMap == IdleComms /\ IdlePattern /\ IdleFacet /\ IdleOwner
    /\ IdleNormal /\ IdleQuery

\* ------------------------------------------------- create_neighborhood_comms
Ranks == 0 .. (mpi_size - 1)

\* The marker the caller looks for, and the values a rank's meshtags may hold.
master_marker == "master"
MeshTagValues == { <<"other">>, <<"other", "master">> }

\* The four collectives of the function, in program order.
Collectives == << "alltoall_masters", "alltoall_slaves", "graph_forward", "graph_reverse" >>

MPI_COMM_NULL == [sources |-> <<>>, destinations |-> <<>>, null |-> TRUE]

Range(s) == { s[k] : k \in 1 .. Len(s) }

\* std::find(values.begin(), values.end(), master_marker) != values.end()
owns_master(values, marker) == \E k \in 1 .. Len(values) : values[k] = marker

\* Variant: only the entry sent to rank 0 carries the flag.
fill_has_slavesMut(size, flag) == [i \in 0 .. (size - 1) |-> IF flag /\ i = 0 THEN 1 ELSE 0]
\* std::uint8_t slave_val = has_slave ? 1 : 0; vector(mpi_size, slave_val)
fill_has_slaves(size, flag) == [i \in 0 .. (size - 1) |-> IF flag THEN 1 ELSE 0]

\* vector(mpi_size, 0), filled with 1 when the marker is found
fill_has_masters(size, values, marker) ==
    [i \in 0 .. (size - 1) |-> IF owns_master(values, marker) THEN 1 ELSE 0]

\* std::vector<std::uint8_t>(mpi_size, -1): every entry is 255
placeholder(size) == [i \in 0 .. (size - 1) |-> (-1) % 256]

\* Variant: the receive buffer is the rank's own send buffer.
alltoall_recvMut(sendbufs, size, rank) == sendbufs[rank]
\* MPI_Alltoall with one element per rank: entry i of the receive buffer of
\* rank is entry rank of the send buffer of rank i.
alltoall_recv(sendbufs, size, rank) == [i \in 0 .. (size - 1) |-> sendbufs[i][rank]]

\* Variant: the loop does not skip the rank itself.
IsOtherRankMut(i, rank) == TRUE
\* (i != rank)
IsOtherRank(i, rank) == i # rank

\* for (int i = 0; i < mpi_size; ++i) if ((i != rank) && (procs[i] == 1)) push_back(i)
RECURSIVE edge_loop(_, _, _, _)
edge_loop(i, size, rank, procs) ==
    IF i >= size THEN <<>>
    ELSE (IF IsOtherRank(i, rank) /\ procs[i] = 1 THEN <<i>> ELSE <<>>)
         \o edge_loop(i + 1, size, rank, procs)

\* Variant: the source list is built when the rank owns a slave.
compute_source_edgesMut(rank, size, pwm, pws) ==
    IF pws[rank] = 1 THEN edge_loop(0, size, rank, pws) ELSE <<>>
\* If current rank owns masters add all slaves as source edges
compute_source_edges(rank, size, pwm, pws) ==
    IF pwm[rank] = 1 THEN edge_loop(0, size, rank, pws) ELSE <<>>

\* Variant: the loop over destinations starts at rank 1.
compute_dest_edgesMut(rank, size, pwm, pws) ==
    IF pws[rank] = 1 THEN edge_loop(1, size, rank, pwm) ELSE <<>>
\* If current rank owns a slave add all masters as destinations
compute_dest_edges(rank, size, pwm, pws) ==
    IF pws[rank] = 1 THEN edge_loop(0, size, rank, pwm) ELSE <<>>

\* MPI_Dist_graph_create_adjacent(comm, sources, destinations) -> comms[0]
forward_graph(src, dst) == [sources |-> src, destinations |-> dst, null |-> FALSE]

\* Variant: the reverse graph is created from the lists in forward order.
reverse_graphMut(src, dst) == [sources |-> src, destinations |-> dst, null |-> FALSE]
\* MPI_Dist_graph_create_adjacent(comm, dest_edges, source_edges) -> comms[1]
reverse_graph(src, dst) == [sources |-> dst, destinations |-> src, null |-> FALSE]

\* Variant: a rank without edges skips the graph creation.
calls_graph_createMut(src, dst) == src # <<>> \/ dst # <<>>
\* Both graph creations are called unconditionally, also with empty lists.
calls_graph_create(src, dst) == TRUE

AllArrived(c) == arrived[c] = Ranks

InitComms ==
    /\ mpi_size \in 1 .. MaxRanks
    /\ has_slave \in [0 .. (mpi_size - 1) -> BOOLEAN]
    /\ meshtags_values \in [0 .. (mpi_size - 1) -> MeshTagValues]
    /\ pc = [r \in 0 .. (mpi_size - 1) |-> "start"]
    /\ has_slaves = [r \in 0 .. (mpi_size - 1) |-> <<>>]
    /\ has_masters = [r \in 0 .. (mpi_size - 1) |-> <<>>]
    /\ procs_with_masters = [r \in 0 .. (mpi_size - 1) |-> <<>>]
    /\ procs_with_slaves = [r \in 0 .. (mpi_size - 1) |-> <<>>]
    /\ source_edges = [r \in 0 .. (mpi_size - 1) |-> <<>>]
    /\ dest_edges = [r \in 0 .. (mpi_size - 1) |-> <<>>]
    /\ comms = [r \in 0 .. (mpi_size - 1) |-> <<MPI_COMM_NULL, MPI_COMM_NULL>>]
    /\ arrived = [c \in Range(Collectives) |-> {}]
    /\ calls = [r \in 0 .. (mpi_size - 1) |-> <<>>]
    /\ IdleNonComms

\* Lines 298-315: the rank fills both send buffers and the first receive
\* buffer, and calls the first MPI_Alltoall.
EnterAlltoallMasters(r) ==
    /\ pc[r] = "start"
    /\ has_slaves' = [has_slaves EXCEPT ![r] = fill_has_slaves(mpi_size, has_slave[r])]
    /\ has_masters' = [has_masters EXCEPT
                         ![r] = fill_has_masters(mpi_size, meshtags_values[r], master_marker)]
    /\ procs_with_masters' = [procs_with_masters EXCEPT ![r] = placeholder(mpi_size)]
    /\ arrived' = [arrived EXCEPT !["alltoall_masters"] = @ \cup {r}]
    /\ calls' = [calls EXCEPT ![r] = Append(@, "alltoall_masters")]
    /\ pc' = [pc EXCEPT ![r] = "alltoall_masters"]
    /\ UNCHANGED nonCommVars
    /\ UNCHANGED <<mpi_size, has_slave, meshtags_values, procs_with_slaves,
                   source_edges, dest_edges, comms>>

\* Lines 315-318: the first all-to-all completes once every rank has called it;
\* the rank then calls the second one.
AlltoallMasters(r) ==
    /\ pc[r] = "alltoall_masters"
    /\ AllArrived("alltoall_masters")
    /\ procs_with_masters' = [procs_with_masters EXCEPT
                                ![r] = alltoall_recv(has_masters, mpi_size, r)]
    /\ procs_with_slaves' = [procs_with_slaves EXCEPT ![r] = placeholder(mpi_size)]
    /\ arrived' = [arrived EXCEPT !["alltoall_slaves"] = @ \cup {r}]
    /\ calls' = [calls EXCEPT ![r] = Append(@, "alltoall_slaves")]
    /\ pc' = [pc EXCEPT ![r] = "alltoall_slaves"]
    /\ UNCHANGED nonCommVars
    /\ UNCHANGED <<mpi_size, has_slave, meshtags_values, has_slaves, has_masters,
                   source_edges, dest_edges, comms>>

\* Lines 318-343: the second all-to-all completes, the rank builds both edge
\* lists and calls the creation of the forward graph.
AlltoallSlaves(r) ==
    /\ pc[r] = "alltoall_slaves"
    /\ AllArrived("alltoall_slaves")
    /\ LET pws == alltoall_recv(has_slaves, mpi_size, r)
           pwm == procs_with_masters[r]
           src == compute_source_edges(r, mpi_size, pwm, pws)
           dst == compute_dest_edges(r, mpi_size, pwm, pws)
       IN /\ procs_with_slaves' = [procs_with_slaves EXCEPT ![r] = pws]
          /\ source_edges' = [source_edges EXCEPT ![r] = src]
          /\ dest_edges' = [dest_edges EXCEPT ![r] = dst]
          /\ IF calls_graph_create(src, dst)
             THEN /\ arrived' = [arrived EXCEPT !["graph_forward"] = @ \cup {r}]
                  /\ calls' = [calls EXCEPT ![r] = Append(@, "graph_forward")]
                  /\ pc' = [pc EXCEPT ![r] = "graph_forward"]
             ELSE /\ pc' = [pc EXCEPT ![r] = "done"]
                  /\ UNCHANGED <<arrived, calls>>
    /\ UNCHANGED nonCommVars
    /\ UNCHANGED <<mpi_size, has_slave, meshtags_values, has_slaves, has_masters,
                   procs_with_masters, comms>>

\* Lines 340-353: the forward graph is created once every rank has called the
\* collective; the rank then calls the creation of the reverse graph.
DistGraphCreateForward(r) ==
    /\ pc[r] = "graph_forward"
    /\ AllArrived("graph_forward")
    /\ comms' = [comms EXCEPT ![r][1] = forward_graph(source_edges[r], dest_edges[r])]
    /\ arrived' = [arrived EXCEPT !["graph_reverse"] = @ \cup {r}]
    /\ calls' = [calls EXCEPT ![r] = Append(@, "graph_reverse")]
    /\ pc' = [pc EXCEPT ![r] = "graph_reverse"]
    /\ UNCHANGED nonCommVars
    /\ UNCHANGED <<mpi_size, has_slave, meshtags_values, has_slaves, has_masters,
                   procs_with_masters, procs_with_slaves, source_edges, dest_edges>>

\* Lines 350-355: the reverse graph is created and the rank returns comms.
DistGraphCreateReverse(r) ==
    /\ pc[r] = "graph_reverse"
    /\ AllArrived("graph_reverse")
    /\ comms' = [comms EXCEPT ![r][2] = reverse_graph(source_edges[r], dest_edges[r])]
    /\ pc' = [pc EXCEPT ![r] = "done"]
    /\ UNCHANGED nonCommVars
    /\ UNCHANGED <<mpi_size, has_slave, meshtags_values, has_slaves, has_masters,
                   procs_with_masters, procs_with_slaves, source_edges, dest_edges,
                   arrived, calls>>

RankStep(r) ==
    \/ EnterAlltoallMasters(r)
    \/ AlltoallMasters(r)
    \/ AlltoallSlaves(r)
    \/ DistGraphCreateForward(r)
    \/ DistGraphCreateReverse(r)

NextComms ==
    \/ \E r \in Ranks : EnterAlltoallMasters(r)
    \/ \E r \in Ranks : AlltoallMasters(r)
    \/ \E r \in Ranks : AlltoallSlaves(r)
    \/ \E r \in Ranks : DistGraphCreateForward(r)
    \/ \E r \in Ranks : DistGraphCreateReverse(r)

SpecComms == InitComms /\ [][NextComms]_vars

\* Every rank runs the function to its end unless it blocks in a collective:
\* each rank's next step is taken once it stays enabled.
SpecCommsFair == SpecComms /\ \A r \in 0 .. (MaxRanks - 1) : WF_vars(r \in Ranks /\ RankStep(r))

\* --------------------------------------------------- create_sparsity_pattern
\* Cells are numbered from 0; a dofmap lists the blocks of each cell.
Cells == 0 .. (NumCells - 1)

\* The dofmaps explored: a line of cells, each sharing a block with the next
\* one, and two blocks per cell that no other cell shares.
LineDofmap == [c \in 1 .. NumCells |-> <<c - 1, c>>]
DiscontinuousDofmap == [c \in 1 .. NumCells |-> <<2 * (c - 1), 2 * (c - 1) + 1>>]
Dofmaps == { LineDofmap, DiscontinuousDofmap }

\* index_map_bs() of a function space
BlockSizes == { 1, 2 }

\* Blocks that may be slaves (both lie in cell 0; in the line dofmap block 1
\* lies in cell 1 as well) and blocks that may be masters (blocks of other
\* cells, which no cell of either dofmap holds together).
SlaveBlocks == { 0, 1 }
MasterBlocks == { NumCells - 2, NumCells }

SeqsUpTo(S, n) == UNION { [1 .. k -> S] : k \in 1 .. n }

RECURSIVE TotalLen(_, _)
TotalLen(f, S) ==
    IF S = {} THEN 0
    ELSE LET x == CHOOSE y \in S : TRUE IN Len(f[x]) + TotalLen(f, S \ {x})

\* slave block -> the ordered master blocks of the slave
BlockConstraints ==
    UNION { { f \in [S -> SeqsUpTo(MasterBlocks, MaxMasters)] : TotalLen(f, S) <= MaxMasters }
            : S \in SUBSET SlaveBlocks }

RECURSIVE SortedSeq(_)
SortedSeq(S) ==
    IF S = {} THEN <<>>
    ELSE LET m == CHOOSE x \in S : \A y \in S : x <= y IN <<m>> \o SortedSeq(S \ {m})

\* MultiPointConstraint::cell_to_slaves(): for each cell the slaves (degrees of
\* freedom) whose block is one of the cell's blocks.
create_cell_to_slaves(dofmap, bs, slaves) ==
    [c \in 1 .. Len(dofmap) |->
        SortedSeq({ s \in slaves : (s \div bs) \in Range(dofmap[c]) })]

\* A constraint object: its function space (dofmap, block size), its master
\* list per slave and its cell-to-slave map. Slaves are component 0 of their
\* block, masters component comp of theirs.
MakeMpc(dofmap, bs, comp, f) ==
    LET slaves == { b * bs : b \in DOMAIN f }
    IN [ dofmap |-> dofmap,
         bs |-> bs,
         masters |-> [s \in slaves |->
                        [k \in 1 .. Len(f[s \div bs]) |-> f[s \div bs][k] * bs + comp]],
         cell_to_slaves |-> create_cell_to_slaves(dofmap, bs, slaves) ]

MpcObjects ==
    UNION { { MakeMpc(d, bs, comp, f) : d \in Dofmaps, comp \in 0 .. (bs - 1),
                                         f \in BlockConstraints }
            : bs \in BlockSizes }

\* a.rank() of the forms explored
FormRanks == { 1, 2, 3 }

\* dofmap->cell_dofs(i)
cell_dofs(mpc, i) == mpc.dofmap[i + 1]

\* Variant: every cell is given the slaves of cell 0.
slaves_of_cellMut(mpc, i) == mpc.cell_to_slaves[1]
\* cell_to_slaves->links(i)
slaves_of_cell(mpc, i) == mpc.cell_to_slaves[i + 1]

\* Variant: the master index is used without dividing by the block size.
master_blockMut(master, bs) == master
\* std::div(master, V->dofmap()->index_map_bs()).quot
master_block(master, bs) == master \div bs

\* for (auto slave : slaves) for (auto master : masters()->links(slave))
\*   flattened_masters.push_back(div.quot)
RECURSIVE flatten_masters(_, _)
flatten_masters(mpc, slaves) ==
    IF slaves = <<>> THEN <<>>
    ELSE [k \in 1 .. Len(mpc.masters[Head(slaves)]) |->
              master_block(mpc.masters[Head(slaves)][k], mpc.bs)]
         \o flatten_masters(mpc, Tail(slaves))

\* SparsityPattern::insert(rows, cols): every pair of a row and a column
insert(rows, cols) == rows \X cols

\* Variant: the transposed insertion is left out.
square_inserterMut(dofs_m, dofs_s) == insert(dofs_m, dofs_s)
\* pattern.insert(dofs_m, dofs_s); pattern.insert(dofs_s, dofs_m);
square_inserter(dofs_m, dofs_s) == insert(dofs_m, dofs_s) \cup insert(dofs_s, dofs_m)

\* first lambda of the rectangular branch: pattern.insert(dofs_m, dofs_s)
row_inserter(dofs_m, dofs_s) == insert(dofs_m, dofs_s)

\* second lambda of the rectangular branch: pattern.insert(dofs_s, dofs_m)
col_inserter(dofs_m, dofs_s) == insert(dofs_s, dofs_m)

\* Variant: the callback inserts its arguments.
do_nothing_inserterMut(dofs_m, dofs_s) == insert(dofs_m, dofs_s)
\* do_nothing_inserter: inserts nothing
do_nothing_inserter(dofs_m, dofs_s) == {}

\* The callbacks are passed to pattern_populator as values.
call_inserter(inserter, dofs_m, dofs_s) ==
    CASE inserter = "square" -> square_inserter(dofs_m, dofs_s)
      [] inserter = "row" -> row_inserter(dofs_m, dofs_s)
      [] inserter = "col" -> col_inserter(dofs_m, dofs_s)
      [] inserter = "nothing" -> do_nothing_inserter(dofs_m, dofs_s)

\* The body of pattern_populator's loop for cell i: nothing for a cell without
\* slaves; otherwise pattern_inserter(master_block, cell_dofs) for each
\* flattened master j and master_inserter(other_master_block, master_block)
\* for each k > j.
populate_cell(mpc, mpc_off_axis, pattern_inserter, master_inserter, i) ==
    LET slaves == slaves_of_cell(mpc, i)
        dofs == Range(cell_dofs(mpc_off_axis, i))
        fm == flatten_masters(mpc, slaves)
    IN IF slaves = <<>> THEN {}
       ELSE UNION { call_inserter(pattern_inserter, {fm[j]}, dofs)
                    \cup UNION { call_inserter(master_inserter, {fm[k]}, {fm[j]})
                                 : k \in (j + 1) .. Len(fm) }
                    : j \in 1 .. Len(fm) }

\* pattern_populator: the entries it inserts over all cells of cell_to_slaves
pattern_populator(mpc, mpc_off_axis, pattern_inserter, master_inserter) ==
    UNION { populate_cell(mpc, mpc_off_axis, pattern_inserter, master_inserter, i - 1)
            : i \in 1 .. Len(mpc.cell_to_slaves) }

\* build_standard_pattern: the pattern of the form without constraints, the
\* test-space cell dofs times the trial-space cell dofs of every cell.
build_standard_pattern(V0, V1) ==
    UNION { insert(Range(cell_dofs(V0, i)), Range(cell_dofs(V1, i))) : i \in Cells }

\* The matrix type tags passed to create_matrix (the default is empty).
MatTypes == { "", "baij" }

\* Lines 529: the test of a.rank()
\* Variant: forms of higher rank are accepted as well.
rank_rejectedMut(rank) == rank < 2
rank_rejected(rank) == rank # 2

\* Line 281: la::petsc::Matrix A(a.mesh()->comm(), pattern, type)
\* Variant: the type tag of the caller is dropped.
MatrixMut(p, is_assembled, t) ==
    [null |-> FALSE, pattern |-> p, from_assembled |-> is_assembled, type |-> ""]
Matrix(p, is_assembled, t) ==
    [null |-> FALSE, pattern |-> p, from_assembled |-> is_assembled, type |-> t]

InitPattern ==
    /\ form_rank \in FormRanks
    /\ mpcs \in [1 .. 2 -> MpcObjects]
    /\ mpc0 = 1
    /\ mpc1 \in 1 .. 2
    /\ type \in MatTypes
    \* an object that is not passed in, and the objects and the type of a form
    \* that is rejected, are not read: one choice of them is enough
    /\ (mpc1 = 1 \/ form_rank # 2) => mpcs[2] = mpcs[1]
    /\ form_rank # 2 => (mpc1 = 1 /\ type = "")
    \* the type tag is explored with one constraint, the overload of lines
    \* 286-292; nothing that depends on the constraints reads it
    /\ mpc1 # mpc0 => type = ""
    /\ pattern = {}
    /\ traversals = <<>>
    /\ ppc = "start"
    /\ events = <<>>
    /\ assembled = FALSE
    /\ matrix = [null |-> TRUE]
    /\ IdleNonPattern

\* Lines 529-533: a form that is not bilinear is rejected.
CheckFormRank ==
    /\ ppc = "start"
    /\ IF rank_rejected(form_rank)
       THEN ppc' = "thrown" /\ events' = Append(events, "throw")
       ELSE ppc' = "standard" /\ events' = events
    /\ UNCHANGED <<form_rank, mpcs, mpc0, mpc1, pattern, traversals, type,
                   assembled, matrix>>
    /\ UNCHANGED nonPatternVars

\* Lines 536-553: the function spaces of the constraints are read, the pattern
\* is created and the standard pattern is built.
BuildStandardPattern ==
    /\ ppc = "standard"
    /\ pattern' = build_standard_pattern(mpcs[mpc0], mpcs[mpc1])
    /\ events' = events \o <<"function_space", "SparsityPattern",
                             "build_standard_pattern">>
    /\ ppc' = "populate"
    /\ UNCHANGED <<form_rank, mpcs, mpc0, mpc1, traversals, type, assembled,
                   matrix>>
    /\ UNCHANGED nonPatternVars

\* Lines 617-628: mpc0 == mpc1, one traversal with square_inserter twice.
PopulateSquare ==
    /\ ppc = "populate"
    /\ mpc0 = mpc1
    /\ LET added == pattern_populator(mpcs[mpc0], mpcs[mpc1], "square", "square")
       IN /\ pattern' = pattern \cup added
          /\ traversals' = Append(traversals, added)
    /\ events' = Append(events, "pattern_populator")
    /\ ppc' = "done"
    /\ UNCHANGED <<form_rank, mpcs, mpc0, mpc1, type, assembled, matrix>>
    /\ UNCHANGED nonPatternVars

\* Lines 629-639: mpc0 != mpc1, the traversal of mpc0 inserting rows.
PopulateRows ==
    /\ ppc = "populate"
    /\ mpc0 # mpc1
    /\ LET added == pattern_populator(mpcs[mpc0], mpcs[mpc1], "row", "nothing")
       IN /\ pattern' = pattern \cup added
          /\ traversals' = Append(traversals, added)
    /\ events' = Append(events, "pattern_populator")
    /\ ppc' = "populate_cols"
    /\ UNCHANGED <<form_rank, mpcs, mpc0, mpc1, type, assembled, matrix>>
    /\ UNCHANGED nonPatternVars

\* Lines 640-647: the traversal of mpc1 inserting columns; the pattern is
\* returned.
PopulateCols ==
    /\ ppc = "populate_cols"
    /\ LET added == pattern_populator(mpcs[mpc1], mpcs[mpc0], "col", "nothing")
       IN /\ pattern' = pattern \cup added
          /\ traversals' = Append(traversals, added)
    /\ events' = Append(events, "pattern_populator")
    /\ ppc' = "done"
    /\ UNCHANGED <<form_rank, mpcs, mpc0, mpc1, type, assembled, matrix>>
    /\ UNCHANGED nonPatternVars

\* Line 277 of create_matrix: pattern.assemble() on the pattern returned by
\* create_sparsity_pattern.
AssemblePattern ==
    /\ ppc = "done"
    /\ assembled' = TRUE
    /\ events' = Append(events, "assemble")
    /\ ppc' = "assembled"
    /\ UNCHANGED <<form_rank, mpcs, mpc0, mpc1, pattern, traversals, type, matrix>>
    /\ UNCHANGED nonPatternVars

\* Lines 281-283 of create_matrix: the matrix is allocated and returned.
AllocateMatrix ==
    /\ ppc = "assembled"
    /\ matrix' = Matrix(pattern, assembled, type)
    /\ events' = Append(events, "Matrix")
    /\ ppc' = "allocated"
    /\ UNCHANGED <<form_rank, mpcs, mpc0, mpc1, pattern, traversals, type,
                   assembled>>
    /\ UNCHANGED nonPatternVars

NextPattern ==
    \/ CheckFormRank
    \/ BuildStandardPattern
    \/ PopulateSquare
    \/ PopulateRows
    \/ PopulateCols
    \/ AssemblePattern
    \/ AllocateMatrix

SpecPattern == InitPattern /\ [][NextPattern]_vars

\* ------------------------------------------------ create_block_to_facet_map
\* The mesh explored: two triangles, cell 0 with vertices 0 1 2 and cell 1 with
\* vertices 1 2 3. Its facets are the edges 0 = (0,1), 1 = (0,2), 2 = (1,2),
\* 3 = (1,3), 4 = (2,3); facet 2 is interior, the others lie on the boundary.
\* Local facet k of a cell is the edge opposite to its local vertex k.
e_to_c == << <<0>>, <<0>>, <<0, 1>>, <<1>>, <<1>> >>
c_to_e == << <<2, 1, 0>>, <<4, 3, 2>> >>
Facets == 0 .. (Len(e_to_c) - 1)

\* The function spaces explored: piecewise linears (one block per vertex, the
\* closure of a facet holds its two vertices), piecewise constants (one block
\* per cell, the closure of a facet is empty) and piecewise linears whose
\* index map holds one more block that no cell of the rank touches.
P1Space == [ cell_dofs |-> << <<0, 1, 2>>, <<1, 2, 3>> >>,
             closure |-> << <<1, 2>>, <<0, 2>>, <<0, 1>> >>,
             num_dofs |-> 4 ]
DG0Space == [ cell_dofs |-> << <<0>>, <<1>> >>,
              closure |-> << <<>>, <<>>, <<>> >>,
              num_dofs |-> 2 ]
P1GhostSpace == [ P1Space EXCEPT !.num_dofs = 5 ]
Spaces == { P1Space, DG0Space, P1GhostSpace }

\* AdjacencyList::links(i) and std::vector indexing, from index 0
links(adj, i) == adj[i + 1]

\* std::distance(begin, std::find(begin, end, x))
find(seq, x) ==
    IF \E k \in 1 .. Len(seq) : seq[k] = x
    THEN (CHOOSE k \in 1 .. Len(seq) : seq[k] = x /\ \A j \in 1 .. (k - 1) : seq[j] # x) - 1
    ELSE Len(seq)

\* dofmap->element_dof_layout().entity_closure_dofs(dim, local_entity)
entity_closure_dofs(V, local_entity) == links(V.closure, local_entity)

\* assert(...) expands to nothing when NDEBUG is defined
assert_removed(flag) == flag

\* Variant: only the first closure block of the entity is counted.
count_closureMut(j, closure_blocks, cell_blocks, counts) ==
    IF Len(closure_blocks) = 0 THEN counts
    ELSE [counts EXCEPT ![links(cell_blocks, links(closure_blocks, 0))] = @ + 1]
\* Lines 64-68: for each closure block j, num_facets_per_dof[dof]++
RECURSIVE count_closure(_, _, _, _)
count_closure(j, closure_blocks, cell_blocks, counts) ==
    IF j >= Len(closure_blocks) THEN counts
    ELSE LET dof == links(cell_blocks, links(closure_blocks, j))
         IN count_closure(j + 1, closure_blocks, cell_blocks,
                          [counts EXCEPT ![dof] = @ + 1])

\* Variant: the sum includes the count of the block itself.
partial_sumMut(counts, k) == IF k = 0 THEN 0 ELSE counts[k - 1]
\* std::partial_sum into offsets.begin() + 1, with offsets[0] = 0
RECURSIVE partial_sum(_, _)
partial_sum(counts, k) ==
    IF k = 0 THEN 0 ELSE partial_sum(counts, k - 1) + counts[k - 1]

\* Variant: the write cursor of the block is not used.
write_slotMut(offs, cursor, dof) == offs[dof]
\* offsets[dof] + num_facets_per_dof[dof]
write_slot(offs, cursor, dof) == offs[dof] + cursor[dof]

\* Lines 87-91: data[offsets[dof] + num_facets_per_dof[dof]++] = entities[i]
RECURSIVE insert_closure(_, _, _, _, _)
insert_closure(j, closure_blocks, cell_blocks, entity, st) ==
    IF j >= Len(closure_blocks) THEN st
    ELSE LET dof == links(cell_blocks, links(closure_blocks, j))
             slot == write_slot(offsets, st.cursor, dof)
         IN insert_closure(j + 1, closure_blocks, cell_blocks, entity,
                [ data |-> [st.data EXCEPT ![slot] = entity],
                  cursor |-> [st.cursor EXCEPT ![dof] = @ + 1],
                  writes |-> Append(st.writes, [slot |-> slot, dof |-> dof, entity |-> entity]) ])

InitFacet ==
    /\ space \in Spaces
    /\ entities \in UNION { [1 .. k -> Facets] : k \in 0 .. MaxEntities }
    /\ ndebug \in BOOLEAN
    /\ fpc = "pass1"
    /\ fi = 0
    /\ cells = <<>>
    /\ local_indices = <<>>
    /\ num_facets_per_dof = [d \in 0 .. (space.num_dofs - 1) |-> 0]
    /\ offsets = <<>>
    /\ data = <<>>
    /\ writes = <<>>
    /\ IdleNonFacet

\* Lines 48-69: one iteration of the first pass. The assertion on the number
\* of incident cells aborts the program unless the build removes assertions,
\* in which case the first incident cell is used.
Pass1Step ==
    /\ fpc = "pass1"
    /\ fi < Len(entities)
    /\ LET cell == links(e_to_c, links(entities, fi))
       IN IF Len(cell) # 1 /\ ~assert_removed(ndebug)
          THEN /\ fpc' = "aborted"
               /\ UNCHANGED <<fi, cells, local_indices, num_facets_per_dof>>
          ELSE LET cell_entities == links(c_to_e, cell[1])
                   local_entity == find(cell_entities, links(entities, fi))
                   cell_blocks == links(space.cell_dofs, cell[1])
                   closure_blocks == entity_closure_dofs(space, local_entity)
               IN /\ cells' = Append(cells, cell[1])
                  /\ local_indices' = Append(local_indices, local_entity)
                  /\ num_facets_per_dof' =
                        count_closure(0, closure_blocks, cell_blocks, num_facets_per_dof)
                  /\ fi' = fi + 1
                  /\ fpc' = fpc
    /\ UNCHANGED <<space, entities, ndebug, offsets, data, writes>>
    /\ UNCHANGED nonFacetVars

\* Lines 72-81: the offsets are the running sums of the counts, the counters
\* are reset and data is allocated (value-initialised).
ComputeOffsets ==
    /\ fpc = "pass1"
    /\ fi = Len(entities)
    /\ offsets' = [k \in 0 .. space.num_dofs |-> partial_sum(num_facets_per_dof, k)]
    /\ num_facets_per_dof' = [d \in 0 .. (space.num_dofs - 1) |-> 0]
    /\ data' = [k \in 0 .. (offsets'[space.num_dofs] - 1) |-> 0]
    /\ fi' = 0
    /\ fpc' = "pass2"
    /\ UNCHANGED <<space, entities, ndebug, cells, local_indices, writes>>
    /\ UNCHANGED nonFacetVars

\* Lines 82-92: one iteration of the second pass.
Pass2Step ==
    /\ fpc = "pass2"
    /\ fi < Len(entities)
    /\ LET cell_blocks == links(space.cell_dofs, links(cells, fi))
           closure_blocks == entity_closure_dofs(space, links(local_indices, fi))
           st == insert_closure(0, closure_blocks, cell_blocks, links(entities, fi),
                                [data |-> data, cursor |-> num_facets_per_dof,
                                 writes |-> writes])
       IN /\ data' = st.data
          /\ num_facets_per_dof' = st.cursor
          /\ writes' = st.writes
    /\ fi' = fi + 1
    /\ UNCHANGED <<space, entities, ndebug, fpc, cells, local_indices, offsets>>
    /\ UNCHANGED nonFacetVars

\* Line 93: the adjacency list (data, offsets) is returned.
ReturnFacetMap ==
    /\ fpc = "pass2"
    /\ fi = Len(entities)
    /\ fpc' = "returned"
    /\ UNCHANGED <<space, entities, ndebug, fi, cells, local_indices,
                   num_facets_per_dof, offsets, data, writes>>
    /\ UNCHANGED nonFacetVars

NextFacet ==
    \/ Pass1Step
    \/ ComputeOffsets
    \/ Pass2Step
    \/ ReturnFacetMap

SpecFacet == InitFacet /\ [][NextFacet]_vars

\* ----------------------------------------------- create_owner_to_ghost_comm
\* The communicator of the index map and the global blocks it distributes.
OgRanks == 0 .. 2
GlobalBlocks == 0 .. 1

\* The blocks a rank owns and the blocks it holds as ghosts, in the order of
\* their local indices (owned blocks first, then ghosts).
owned_blocks(r) == SortedSeq({ b \in GlobalBlocks : owner[b] = r })
ghosted_blocks(r) == SortedSeq({ b \in GlobalBlocks : r \in ghosters[b] })

\* index_map->size_local()
size_local(r) == Len(owned_blocks(r))
\* index_map->owners(): the owner of each ghost
owners(r) == [k \in 1 .. Len(ghosted_blocks(r)) |-> owner[ghosted_blocks(r)[k]]]
\* Variant: only the lowest rank ghosting an index is listed.
index_to_dest_ranksMut(r) ==
    [k \in 1 .. size_local(r) |->
        IF ghosters[owned_blocks(r)[k]] = {} THEN << >>
        ELSE SubSeq(SortedSeq(ghosters[owned_blocks(r)[k]]), 1, 1)]
\* index_map->index_to_dest_ranks(): for each owned index the ranks ghosting it
index_to_dest_ranks(r) ==
    [k \in 1 .. size_local(r) |-> SortedSeq(ghosters[owned_blocks(r)[k]])]

\* Variant: the owner of the first ghost is used for every ghost block.
ghost_indexMut(block, num_local) == 0
\* ghost_owners[block - size_local]
ghost_index(block, num_local) == block - num_local

\* Lines 378-380: for block in local_blocks, for proc in links(block): insert
RECURSIVE dst_loop(_, _, _, _)
dst_loop(k, blocks, shared_indices, dst_edges) ==
    IF k > Len(blocks) THEN dst_edges
    ELSE dst_loop(k + 1, blocks, shared_indices,
                  dst_edges \cup Range(links(shared_indices, blocks[k])))

\* Lines 382-383: for block in ghost_blocks: insert its owner
RECURSIVE src_loop(_, _, _, _, _)
src_loop(k, blocks, ghost_owners, num_local, src_edges) ==
    IF k > Len(blocks) THEN src_edges
    ELSE src_loop(k + 1, blocks, ghost_owners, num_local,
                  src_edges \cup { links(ghost_owners, ghost_index(blocks[k], num_local)) })

\* vector.assign(set.begin(), set.end()): the elements in increasing order
assign(edges) == SortedSeq(edges)

\* The block lists a rank may pass: lists of owned indices and lists of ghost
\* indices, of any order and multiplicity.
BlockLists(first, count) ==
    UNION { [1 .. k -> first .. (first + count - 1)] : k \in 0 .. MaxBlocksArg }
BlockArgs(r) ==
    BlockLists(0, size_local(r)) \X BlockLists(size_local(r), Len(owners(r)))

InitOwner ==
    /\ owner \in [GlobalBlocks -> OgRanks]
    /\ ghosters \in [GlobalBlocks -> SUBSET OgRanks]
    /\ \A b \in GlobalBlocks : owner[b] \notin ghosters[b]
    \* local_blocks holds owned indices and ghost_blocks holds ghost indices
    /\ \E args \in BlockArgs(0) \X BlockArgs(1) \X BlockArgs(2) :
          /\ local_blocks = [r \in OgRanks |-> args[r + 1][1]]
          /\ ghost_blocks = [r \in OgRanks |-> args[r + 1][2]]
    /\ og_source_edges = [r \in OgRanks |-> <<>>]
    /\ og_dest_edges = [r \in OgRanks |-> <<>>]
    /\ comm_loc = [r \in OgRanks |-> MPI_COMM_NULL]
    /\ opc = [r \in OgRanks |-> "start"]
    /\ IdleNonOwner

\* Lines 364-369: the rank reads the index map and calls the collective that
\* creates the communicator of the index map.
EnterOwnerToGhost(r) ==
    /\ opc[r] = "start"
    /\ opc' = [opc EXCEPT ![r] = "comm"]
    /\ UNCHANGED <<owner, ghosters, local_blocks, ghost_blocks, og_source_edges,
                   og_dest_edges, comm_loc>>
    /\ UNCHANGED nonOwnerVars

\* Lines 371-392: once every rank has called the collective the rank builds
\* both edge sets, copies them into vectors and calls the graph creation.
CollectEdges(r) ==
    /\ opc[r] = "comm"
    /\ \A q \in OgRanks : opc[q] # "start"
    /\ LET src_edges == src_loop(1, ghost_blocks[r], owners(r), size_local(r), {})
           dst_edges == dst_loop(1, local_blocks[r], index_to_dest_ranks(r), {})
       IN /\ og_source_edges' = [og_source_edges EXCEPT ![r] = assign(src_edges)]
          /\ og_dest_edges' = [og_dest_edges EXCEPT ![r] = assign(dst_edges)]
    /\ opc' = [opc EXCEPT ![r] = "graph"]
    /\ UNCHANGED <<owner, ghosters, local_blocks, ghost_blocks, comm_loc>>
    /\ UNCHANGED nonOwnerVars

\* Lines 392-398: the graph communicator is created once every rank has
\* called the collective, and is returned.
OwnerDistGraphCreate(r) ==
    /\ opc[r] = "graph"
    /\ \A q \in OgRanks : opc[q] \in { "graph", "done" }
    /\ comm_loc' = [comm_loc EXCEPT ![r] = [sources |-> og_source_edges[r],
                                            destinations |-> og_dest_edges[r],
                                            null |-> FALSE]]
    /\ opc' = [opc EXCEPT ![r] = "done"]
    /\ UNCHANGED <<owner, ghosters, local_blocks, ghost_blocks, og_source_edges,
                   og_dest_edges>>
    /\ UNCHANGED nonOwnerVars

NextOwner ==
    \/ \E r \in OgRanks : EnterOwnerToGhost(r)
    \/ \E r \in OgRanks : CollectEdges(r)
    \/ \E r \in OgRanks : OwnerDistGraphCreate(r)

SpecOwner == InitOwner /\ [][NextOwner]_vars

\* ---------------------------------------------- create_normal_approximation
\* The index map explored, per rank: the number of owned blocks and, for each
\* ghost, its owner and its index on the owner. Rank 0 owns two blocks, the
\* second of which ranks 1 and 2 hold as a ghost; rank 1 owns one block that
\* rank 0 holds as a ghost; rank 2 owns nothing.
NormalIndexMap ==
    << [size_local |-> 2, ghosts |-> << [owner |-> 1, index |-> 0] >>],
       [size_local |-> 1, ghosts |-> << [owner |-> 0, index |-> 1] >>],
       [size_local |-> 0, ghosts |-> << [owner |-> 0, index |-> 1] >>] >>
NormalRanks == 0 .. (Len(NormalIndexMap) - 1)
imap(r) == NormalIndexMap[r + 1]
LocalBlocks(r) == 0 .. (imap(r).size_local + Len(imap(r).ghosts) - 1)

\* Components are exact: a value is num / den, with num in units of 1e-6 and
\* den, a product of two components, in units of 1e-12 (den = 1 for a value
\* that was not divided). The summed facet normals of a block as the
\* accumulation loop leaves them; the zero vector is also what a block
\* without entities keeps.
LocalNormals == { <<0, 0>>, <<10, 0>>, <<-10, 0>>, <<7, 8>> }

\* 1e-10 in units of 1e-12
threshold == 100

vec_add(a, b) == [num |-> [j \in 1 .. Len(a.num) |-> a.num[j] + b.num[j]], den |-> a.den]

\* Lines 456-457: acc += _n[i * bs + j] * _n[i * bs + j]
RECURSIVE acc_loop(_, _)
acc_loop(j, v) == IF j > Len(v.num) THEN 0 ELSE v.num[j] * v.num[j] + acc_loop(j + 1, v)

\* std::sqrt(xt::norm(acc)): xt::norm is the squared magnitude, so this is |acc|
sqrt_norm(acc) == IF acc < 0 THEN -acc ELSE acc

\* Variant: the comparison with the threshold is not strict.
above_thresholdMut(acc) == sqrt_norm(acc) >= threshold
\* std::sqrt(xt::norm(acc)) > 1e-10
above_threshold(acc) == sqrt_norm(acc) > threshold

\* Lines 455-463: one iteration of the normalisation loop
normalise_block(v) ==
    LET acc == acc_loop(1, v)
    IN IF above_threshold(acc)
       THEN [num |-> v.num, den |-> v.den * sqrt_norm(acc)]
       ELSE v

\* The ghosts of other ranks that belong to block i of rank r
GhostCopies(r, i) ==
    UNION { { <<q, k>> : k \in { j \in 1 .. Len(imap(q).ghosts) :
                                    imap(q).ghosts[j] = [owner |-> r, index |-> i] } }
            : q \in NormalRanks }

RECURSIVE add_copies(_, _)
add_copies(v, copies) ==
    IF copies = {} THEN v
    ELSE LET c == CHOOSE x \in copies : TRUE
         IN add_copies(vec_add(v, nh[c[1]][imap(c[1]).size_local + c[2] - 1]),
                       copies \ {c})

\* Variant: the ghost keeps its own value.
ghost_update_forwardMut(r, i) == nh[r][i]
\* INSERT_VALUES, SCATTER_FORWARD: ghost i of rank r takes its owner's value
ghost_update_forward(r, i) ==
    LET g == imap(r).ghosts[i - imap(r).size_local + 1]
    IN nh[g.owner][g.index]

InitNormal ==
    /\ normals \in [NormalRanks -> [0 .. 2 -> LocalNormals]]
    /\ \A r \in NormalRanks : \A i \in 0 .. 2 : i \notin LocalBlocks(r) => normals[r][i] = <<0, 0>>
    /\ nh = [r \in NormalRanks |-> [i \in LocalBlocks(r) |-> [num |-> <<0, 0>>, den |-> 1]]]
    /\ npc = [r \in NormalRanks |-> "start"]
    /\ IdleNonNormal

\* Lines 406-446: the block-to-entity map is built and the summed normals of
\* every local block that has entities are written into the local array.
Accumulate(r) ==
    /\ npc[r] = "start"
    /\ nh' = [nh EXCEPT ![r] = [i \in LocalBlocks(r) |-> [num |-> normals[r][i], den |-> 1]]]
    /\ npc' = [npc EXCEPT ![r] = "scatter_reverse"]
    /\ UNCHANGED normals
    /\ UNCHANGED nonNormalVars

\* Lines 448-449: VecGhostUpdate with ADD_VALUES, SCATTER_REVERSE: the values
\* of the ghost copies held by other ranks are added into the owned blocks.
ScatterReverse(r) ==
    /\ npc[r] = "scatter_reverse"
    /\ \A q \in NormalRanks : npc[q] # "start"
    /\ nh' = [nh EXCEPT ![r] =
                [i \in LocalBlocks(r) |->
                    IF i < imap(r).size_local
                    THEN add_copies(nh[r][i], GhostCopies(r, i))
                    ELSE nh[r][i]]]
    /\ npc' = [npc EXCEPT ![r] = "normalise"]
    /\ UNCHANGED normals
    /\ UNCHANGED nonNormalVars

\* Lines 451-464: the owned blocks are normalised.
Normalise(r) ==
    /\ npc[r] = "normalise"
    /\ nh' = [nh EXCEPT ![r] =
                [i \in LocalBlocks(r) |->
                    IF i < imap(r).size_local THEN normalise_block(nh[r][i]) ELSE nh[r][i]]]
    /\ npc' = [npc EXCEPT ![r] = "scatter_forward"]
    /\ UNCHANGED normals
    /\ UNCHANGED nonNormalVars

\* Lines 466-468: VecGhostUpdate with INSERT_VALUES, SCATTER_FORWARD: every
\* ghost takes the value of its owner; the function is returned.
ScatterForward(r) ==
    /\ npc[r] = "scatter_forward"
    /\ \A q \in NormalRanks : npc[q] \in { "scatter_forward", "done" }
    /\ nh' = [nh EXCEPT ![r] =
                [i \in LocalBlocks(r) |->
                    IF i < imap(r).size_local THEN nh[r][i]
                    ELSE ghost_update_forward(r, i)]]
    /\ npc' = [npc EXCEPT ![r] = "done"]
    /\ UNCHANGED normals
    /\ UNCHANGED nonNormalVars

NextNormal ==
    \/ \E r \in NormalRanks : Accumulate(r)
    \/ \E r \in NormalRanks : ScatterReverse(r)
    \/ \E r \in NormalRanks : Normalise(r)
    \/ \E r \in NormalRanks : ScatterForward(r)

SpecNormal == InitNormal /\ [][NextNormal]_vars

\* ----------------------- tabulate_dof_coordinates, evaluate_basis_functions
\* What tabulate_dof_coordinates reads: whether V.component() is empty,
\* element->is_mixed(), element->interpolation_ident() and dofs.size().
TabulateArgs ==
    [ component_empty : BOOLEAN, is_mixed : BOOLEAN, interpolation_ident : BOOLEAN,
      num_dofs : 0 .. MaxPoints ]

\* The (num_sub_elements, block_size) of the elements explored: a scalar
\* element, blocked elements and mixed elements of two and three parts.
ElementShapes ==
    { [num_sub_elements |-> 0, bs_element |-> 1],
      [num_sub_elements |-> 2, bs_element |-> 2],
      [num_sub_elements |-> 3, bs_element |-> 3],
      [num_sub_elements |-> 2, bs_element |-> 1],
      [num_sub_elements |-> 3, bs_element |-> 1] }

\* What evaluate_basis_functions reads: x.shape(0), cells.size() and the
\* element.
EvaluateArgs ==
    [ num_points : 0 .. MaxPoints, num_cells : 0 .. MaxPoints, element : ElementShapes ]

\* Variant: only elements of more than two parts are rejected.
mixed_rejectedMut(num_sub_elements, bs_element) ==
    num_sub_elements > 2 /\ num_sub_elements # bs_element
\* num_sub_elements > 1 and num_sub_elements != bs_element
mixed_rejected(num_sub_elements, bs_element) ==
    num_sub_elements > 1 /\ num_sub_elements # bs_element

InitQuery ==
    /\ \/ query = "tabulate_dof_coordinates" /\ qarg \in TabulateArgs
       \/ query = "evaluate_basis_functions" /\ qarg \in EvaluateArgs
    /\ qpc = "start"
    /\ result = [null |-> TRUE]
    /\ IdleNonQuery

\* Lines 871-875: a subspace is rejected.
TabulateCheckSubspace ==
    /\ query = "tabulate_dof_coordinates"
    /\ qpc = "start"
    /\ qpc' = IF ~qarg.component_empty THEN "thrown" ELSE "check_mixed"
    /\ UNCHANGED <<query, qarg, result>>
    /\ UNCHANGED nonQueryVars

\* Lines 876-882: a mixed element is rejected.
TabulateCheckMixed ==
    /\ query = "tabulate_dof_coordinates"
    /\ qpc = "check_mixed"
    /\ qpc' = IF qarg.is_mixed THEN "thrown" ELSE "check_interpolation"
    /\ UNCHANGED <<query, qarg, result>>
    /\ UNCHANGED nonQueryVars

\* Lines 884-905: an element without pointwise evaluation is rejected.
TabulateCheckInterpolation ==
    /\ query = "tabulate_dof_coordinates"
    /\ qpc = "check_interpolation"
    /\ qpc' = IF ~qarg.interpolation_ident THEN "thrown" ELSE "allocate"
    /\ UNCHANGED <<query, qarg, result>>
    /\ UNCHANGED nonQueryVars

\* Lines 906-921: coords is allocated with one column per dof.
TabulateAllocate ==
    /\ query = "tabulate_dof_coordinates"
    /\ qpc = "allocate"
    /\ result' = [null |-> FALSE, size |-> qarg.num_dofs, filled |-> 0]
    /\ qpc' = "fill"
    /\ UNCHANGED <<query, qarg>>
    /\ UNCHANGED nonQueryVars

\* Lines 957-984: the columns are filled and coords is returned.
TabulateReturn ==
    /\ query = "tabulate_dof_coordinates"
    /\ qpc = "fill"
    /\ result' = [result EXCEPT !.filled = result.size]
    /\ qpc' = "returned"
    /\ UNCHANGED <<query, qarg>>
    /\ UNCHANGED nonQueryVars

\* Lines 654-658: as many points as cells are required.
EvaluateCheckSizes ==
    /\ query = "evaluate_basis_functions"
    /\ qpc = "start"
    /\ qpc' = IF qarg.num_points # qarg.num_cells THEN "thrown" ELSE "check_mixed"
    /\ UNCHANGED <<query, qarg, result>>
    /\ UNCHANGED nonQueryVars

\* Lines 660-692: a mixed element is rejected.
EvaluateCheckMixed ==
    /\ query = "evaluate_basis_functions"
    /\ qpc = "check_mixed"
    /\ qpc' = IF mixed_rejected(qarg.element.num_sub_elements, qarg.element.bs_element)
              THEN "thrown" ELSE "allocate"
    /\ UNCHANGED <<query, qarg, result>>
    /\ UNCHANGED nonQueryVars

\* Lines 694-702: the array of values is allocated with one row per point and
\* is returned at once when there are no points.
EvaluateAllocate ==
    /\ query = "evaluate_basis_functions"
    /\ qpc = "allocate"
    /\ result' = [null |-> FALSE, size |-> qarg.num_points, filled |-> 0]
    /\ qpc' = IF qarg.num_points = 0 THEN "returned" ELSE "fill"
    /\ UNCHANGED <<query, qarg>>
    /\ UNCHANGED nonQueryVars

\* Lines 704-862: the check of the element is repeated, the rows are filled
\* and the array is returned.
EvaluateReturn ==
    /\ query = "evaluate_basis_functions"
    /\ qpc = "fill"
    /\ IF mixed_rejected(qarg.element.num_sub_elements, qarg.element.bs_element)
       THEN qpc' = "thrown" /\ result' = result
       ELSE qpc' = "returned" /\ result' = [result EXCEPT !.filled = result.size]
    /\ UNCHANGED <<query, qarg>>
    /\ UNCHANGED nonQueryVars

NextQuery ==
    \/ TabulateCheckSubspace
    \/ TabulateCheckMixed
    \/ TabulateCheckInterpolation
    \/ TabulateAllocate
    \/ TabulateReturn
    \/ EvaluateCheckSizes
    \/ EvaluateCheckMixed
    \/ EvaluateAllocate
    \/ EvaluateReturn

SpecQuery == InitQuery /\ [][NextQuery]_vars

\* ------------------------------------------------ create_block_to_cell_map
\* The function spaces explored, on the two-triangle mesh: the cells of the
\* rank are its owned cells followed by its ghost cells, and the index map of
\* the dofmap holds num_blocks = size_local + ghost_owners.size() blocks.
CellSpace(V, n_local) ==
    [ cell_dofs |-> V.cell_dofs,
      num_blocks |-> V.num_dofs,
      num_cells_local |-> n_local,
      num_ghost_cells |-> Len(V.cell_dofs) - n_local ]
CellSpaces ==
    { CellSpace(P1Space, 2), CellSpace(P1Space, 1), CellSpace(DG0Space, 2),
      CellSpace(DG0Space, 1), CellSpace(P1GhostSpace, 2) }

\* Lines 495-496: for each dof of the cell, num_cells_per_dof[dof]++
RECURSIVE count_cell(_, _, _)
count_cell(j, dofs, counts) ==
    IF j >= Len(dofs) THEN counts
    ELSE count_cell(j + 1, dofs, [counts EXCEPT ![links(dofs, j)] = @ + 1])

\* Lines 509-510: cell_map[cell_dofs_disp[dof] + num_cells_per_dof[dof]++] = i
RECURSIVE insert_cell(_, _, _, _)
insert_cell(j, dofs, i, st) ==
    IF j >= Len(dofs) THEN st
    ELSE LET dof == links(dofs, j)
         IN insert_cell(j + 1, dofs, i,
                [ cell_map |-> [st.cell_map EXCEPT
                                   ![cell_dofs_disp[dof] + st.cursor[dof]] = i],
                  cursor |-> [st.cursor EXCEPT ![dof] = @ + 1] ])

\* Line 516: the index read for a block, the first slot of its row
first_slot(disp, dof) == disp[dof]

\* What a read of cell_map past its end may yield: some std::int32_t.
StrayValues(V) == -1 .. Len(V.cell_dofs)

InitCellMap ==
    /\ cspace \in CellSpaces
    /\ blocks_in \in UNION { [1 .. k -> 0 .. (cspace.num_blocks - 1)] :
                               k \in 0 .. MaxBlockList }
    /\ cpc = "count"
    /\ ci = 0
    /\ num_cells_per_dof = [d \in 0 .. (cspace.num_blocks - 1) |-> 0]
    /\ cell_dofs_disp = <<>>
    /\ cell_map = <<>>
    /\ cells_out = <<>>
    /\ IdleNonCellMap

\* Lines 492-497: one iteration of the counting loop over owned and ghost cells.
CountCell ==
    /\ cpc = "count"
    /\ ci < cspace.num_cells_local + cspace.num_ghost_cells
    /\ num_cells_per_dof' =
          count_cell(0, links(cspace.cell_dofs, ci), num_cells_per_dof)
    /\ ci' = ci + 1
    /\ UNCHANGED <<cspace, blocks_in, cpc, cell_dofs_disp, cell_map, cells_out>>
    /\ UNCHANGED nonCellVars

\* Lines 498-503: the displacements are the running sums of the counts,
\* cell_map is allocated (value-initialised) and the counters are reset.
ComputeDisp ==
    /\ cpc = "count"
    /\ ci = cspace.num_cells_local + cspace.num_ghost_cells
    /\ cell_dofs_disp' =
          [k \in 0 .. cspace.num_blocks |-> partial_sum(num_cells_per_dof, k)]
    /\ cell_map' = [k \in 0 .. (cell_dofs_disp'[cspace.num_blocks] - 1) |-> 0]
    /\ num_cells_per_dof' = [d \in 0 .. (cspace.num_blocks - 1) |-> 0]
    /\ ci' = 0
    /\ cpc' = "fill"
    /\ UNCHANGED <<cspace, blocks_in, cells_out>>
    /\ UNCHANGED nonCellVars

\* Lines 506-511: one iteration of the loop that fills cell_map.
FillCell ==
    /\ cpc = "fill"
    /\ ci < cspace.num_cells_local + cspace.num_ghost_cells
    /\ LET st == insert_cell(0, links(cspace.cell_dofs, ci), ci,
                             [cell_map |-> cell_map, cursor |-> num_cells_per_dof])
       IN /\ cell_map' = st.cell_map
          /\ num_cells_per_dof' = st.cursor
    /\ ci' = ci + 1
    /\ UNCHANGED <<cspace, blocks_in, cpc, cell_dofs_disp, cells_out>>
    /\ UNCHANGED nonCellVars

\* The fill loop has ended; std::for_each over blocks begins.
BeginPopulate ==
    /\ cpc = "fill"
    /\ ci = cspace.num_cells_local + cspace.num_ghost_cells
    /\ ci' = 0
    /\ cpc' = "populate"
    /\ UNCHANGED <<cspace, blocks_in, num_cells_per_dof, cell_dofs_disp,
                   cell_map, cells_out>>
    /\ UNCHANGED nonCellVars

\* Lines 514-516: cells.push_back(cell_map[cell_dofs_disp[dof]]) for one
\* block. No check is made that the row of the block is not empty: the read
\* is then the first entry of the next non-empty row, or lies past the end of
\* cell_map, where it yields a stray value or faults.
PopulateStep ==
    /\ cpc = "populate"
    /\ ci < Len(blocks_in)
    /\ LET slot == first_slot(cell_dofs_disp, links(blocks_in, ci))
       IN IF slot \in DOMAIN cell_map
          THEN /\ cells_out' = Append(cells_out, cell_map[slot])
               /\ ci' = ci + 1
               /\ cpc' = cpc
          ELSE \/ \E v \in StrayValues(cspace) :
                     /\ cells_out' = Append(cells_out, v)
                     /\ ci' = ci + 1
                     /\ cpc' = cpc
               \/ /\ cpc' = "fault"
                  /\ UNCHANGED <<ci, cells_out>>
    /\ UNCHANGED <<cspace, blocks_in, num_cells_per_dof, cell_dofs_disp, cell_map>>
    /\ UNCHANGED nonCellVars

\* Lines 517-518: cells is returned.
ReturnCells ==
    /\ cpc = "populate"
    /\ ci = Len(blocks_in)
    /\ cpc' = "returned"
    /\ UNCHANGED <<cspace, blocks_in, ci, num_cells_per_dof, cell_dofs_disp,
                   cell_map, cells_out>>
    /\ UNCHANGED nonCellVars

NextCellMap ==
    \/ CountCell
    \/ ComputeDisp
    \/ FillCell
    \/ BeginPopulate
    \/ PopulateStep
    \/ ReturnCells

SpecCellMap == InitCellMap /\ [][NextCellMap]_vars

\* ------------------------------------------- claims: neighbourhood comms
HasMaster(r) == owns_master(meshtags_values[r], master_marker)
AllDone == \A r \in Ranks : pc[r] = "done"
Created(r, c) == ~comms[r][c].null

\* The edges of topology c (1 forward, 2 reverse) as the destination ranks
\* declare them (their source lists) and as the source ranks declare them
\* (their destination lists).
SourceDeclared(c) == { <<i, j>> \in Ranks \X Ranks : i \in Range(comms[j][c].sources) }
DestDeclared(c) == { <<i, j>> \in Ranks \X Ranks : j \in Range(comms[i][c].destinations) }

\* C1: for distinct ranks i and r, the forward topology comms[0] has the edge
\* i -> r (in r's source list, and in i's destination list) exactly when rank i
\* owns a slave and rank r owns a master.
C1_ForwardEdgeIff ==
    \A i, r \in Ranks :
        i # r =>
            /\ Created(r, 1) =>
                 (i \in Range(comms[r][1].sources) <=> (has_slave[i] /\ HasMaster(r)))
            /\ Created(i, 1) =>
                 (r \in Range(comms[i][1].destinations) <=> (has_slave[i] /\ HasMaster(r)))

C1_Witness ==
    /\ AllDone
    /\ \E i, r \in Ranks : i # r /\ has_slave[i] /\ HasMaster(r)
                           /\ <<i, r>> \in SourceDeclared(1)
    /\ \E i, r \in Ranks : i # r /\ ~(has_slave[i] /\ HasMaster(r))

\* C2: once every rank holds both communicators, for distinct ranks i and j
\* the edge i -> j is in the forward topology exactly when the edge j -> i is
\* in the reverse topology (as declared by source lists and by destination
\* lists alike).
C2_ForwardReverseSymmetry ==
    AllDone =>
        \A i, j \in Ranks :
            i # j =>
                /\ <<i, j>> \in SourceDeclared(1) <=> <<j, i>> \in SourceDeclared(2)
                /\ <<i, j>> \in DestDeclared(1) <=> <<j, i>> \in DestDeclared(2)

C2_Witness ==
    /\ AllDone
    /\ \E i, j \in Ranks : /\ i # j
                           /\ <<i, j>> \in SourceDeclared(1)
                           /\ <<j, i>> \in SourceDeclared(2)
                           /\ <<j, i>> \notin SourceDeclared(1)

\* The scenario of C3: 4 ranks, ranks 0 and 1 own slaves, ranks 2 and 3 own
\* the master marker, rank 0 owns a master as well.
C3_Scenario ==
    /\ mpi_size = 4
    /\ has_slave = [r \in 0 .. 3 |-> r \in {0, 1}]
    /\ \A r \in 0 .. 3 : HasMaster(r) <=> r \in {0, 2, 3}
    /\ AllDone

\* C3 as claimed: in the scenario the forward edge set is
\* {0->2, 0->3, 1->2, 1->3}.
C3_Original ==
    C3_Scenario => SourceDeclared(1) = { <<0, 2>>, <<0, 3>>, <<1, 2>>, <<1, 3>> }

\* C3 (amended): in the scenario the forward edge set is
\* {0->2, 0->3, 1->0, 1->2, 1->3}: rank 0 owns a master, so the slave owner
\* rank 1 sends to it; there is no edge from rank 0 to rank 0.
C3_ScenarioEdges ==
    C3_Scenario =>
        /\ SourceDeclared(1) = { <<0, 2>>, <<0, 3>>, <<1, 0>>, <<1, 2>>, <<1, 3>> }
        /\ DestDeclared(1) = SourceDeclared(1)

C3_Witness == C3_Scenario /\ <<1, 0>> \in SourceDeclared(1) /\ <<0, 0>> \notin SourceDeclared(1)

\* C4: in both topologies no rank lists itself as a source or as a
\* destination, whatever the booleans are.
C4_NoSelfEdge ==
    \A r \in Ranks : \A c \in 1 .. 2 :
        /\ r \notin Range(comms[r][c].sources)
        /\ r \notin Range(comms[r][c].destinations)

C4_Witness ==
    /\ AllDone
    /\ \E r \in Ranks : /\ has_slave[r] /\ HasMaster(r)
                        /\ comms[r][1].sources # <<>>
                        /\ comms[r][1].destinations # <<>>

RECURSIVE IsPrefix(_, _)
IsPrefix(s, t) ==
    \/ s = <<>>
    \/ /\ t # <<>>
       /\ Head(s) = Head(t)
       /\ IsPrefix(Tail(s), Tail(t))

\* C5: every rank calls the same four collectives in the same order whatever
\* its booleans are, and every rank eventually returns having called all four.
C5_SameCollectivesAllReturn ==
    /\ [](\A r \in Ranks : IsPrefix(calls[r], Collectives))
    /\ <>(\A r \in Ranks : pc[r] = "done" /\ calls[r] = Collectives)

C5_Witness ==
    /\ AllDone
    /\ mpi_size > 1
    /\ \E r \in Ranks : /\ source_edges[r] = <<>> /\ dest_edges[r] = <<>>
                        /\ calls[r] = Collectives
    /\ \E r \in Ranks : source_edges[r] # <<>>

\* ---------------------------------------------- claims: sparsity pattern
Returned == ppc = "done"
M0 == mpcs[mpc0]
M1 == mpcs[mpc1]
CellDofs(m, i) == Range(m.dofmap[i + 1])
CellSlaves(m, i) == Range(m.cell_to_slaves[i + 1])

\* The master blocks of the slaves of cell i in constraint m.
MasterBlocksOfCell(m, i) ==
    { m.masters[s][k] \div m.bs : <<s, k>> \in
        { <<s, k>> \in CellSlaves(m, i) \X (1 .. MaxMasters) : k <= Len(m.masters[s]) } }

\* C6: for every cell, with R the test-space cell dofs augmented by the master
\* blocks of the cell's mpc0 slaves and C the trial-space cell dofs augmented
\* by the master blocks of its mpc1 slaves, every pair of R x C is in the
\* returned pattern, in the square and in the rectangular case.
C6_SparsitySuperset ==
    Returned =>
        \A i \in Cells :
            (CellDofs(M0, i) \cup MasterBlocksOfCell(M0, i))
                \X (CellDofs(M1, i) \cup MasterBlocksOfCell(M1, i)) \subseteq pattern

\* C7: for one constraint object, the pattern the square path produces equals,
\* as a set of entries, the standard pattern with the union of the entries the
\* two traversals of the rectangular path insert when both constraints are
\* that object (equal sets of inserted entries give equal patterns).
C7_SquareEqualsRectangularUnion ==
    (Returned /\ mpc0 = mpc1) =>
        pattern = build_standard_pattern(M0, M0)
                  \cup pattern_populator(M0, M0, "row", "nothing")
                  \cup pattern_populator(M0, M0, "col", "nothing")

\* C8: in the returned pattern, for every cell with a slave in mpc0's
\* cell-to-slave map, every slave of the cell and every master of the slave,
\* the entry (master / bs of mpc0's space, d) is present for every cell dof d
\* of mpc1's space.
C8_MasterRowsSeeTrialDofs ==
    Returned =>
        \A i \in Cells :
            \A s \in CellSlaves(M0, i) :
                \A k \in 1 .. Len(M0.masters[s]) :
                    \A d \in CellDofs(M1, i) :
                        <<M0.masters[s][k] \div M0.bs, d>> \in pattern

C8_Witness ==
    /\ Returned
    /\ mpc0 # mpc1
    /\ M0.bs = 2
    /\ M0.dofmap # M1.dofmap
    /\ \E i \in Cells : \E s \in CellSlaves(M0, i) : \E d \in CellDofs(M1, i) :
          /\ M0.masters[s][1] % 2 = 1
          /\ <<M0.masters[s][1] \div 2, d>> \in pattern
          /\ <<M0.masters[s][1] \div 2, d>> \notin build_standard_pattern(M0, M1)

\* The pairs of positions j < k of the flattened master list of cell i.
CrossPairsPresent(m, i) ==
    LET fm == flatten_masters(m, m.cell_to_slaves[i + 1])
    IN \A j, k \in 1 .. Len(fm) :
          j < k => (<<fm[j], fm[k]>> \in pattern /\ <<fm[k], fm[j]>> \in pattern)

\* C9 as claimed: in the returned pattern, for every cell and every pair of
\* masters at positions j < k of the cell's flattened master list, both
\* (m_j, m_k) and (m_k, m_j) are present.
C9_Original == Returned => \A i \in Cells : CrossPairsPresent(M0, i)

\* C9 (amended): when mpc0 == mpc1, in the returned pattern, for every cell
\* and every pair of masters at positions j < k of the cell's flattened master
\* list, both (m_j, m_k) and (m_k, m_j) are present, and so is (m, d) for
\* every master m and trial dof d of the cell.
C9_SquareCrossPairs ==
    (Returned /\ mpc0 = mpc1) =>
        \A i \in Cells :
            /\ CrossPairsPresent(M0, i)
            /\ MasterBlocksOfCell(M0, i) \X CellDofs(M1, i) \subseteq pattern

\* A cell with two slaves, each with one master, the two masters distinct.
C9_Witness ==
    /\ Returned
    /\ mpc0 = mpc1
    /\ \E i \in Cells :
          LET sl == M0.cell_to_slaves[i + 1]
          IN /\ Len(sl) = 2
             /\ Len(M0.masters[sl[1]]) = 1
             /\ Len(M0.masters[sl[2]]) = 1
             /\ M0.masters[sl[1]][1] \div M0.bs # M0.masters[sl[2]][1] \div M0.bs
             /\ << M0.masters[sl[1]][1] \div M0.bs, M0.masters[sl[2]][1] \div M0.bs >>
                    \in pattern \ build_standard_pattern(M0, M1)

\* C10: when mpc0 != mpc1 the extension step runs exactly two traversals; the
\* first inserts exactly the entries (master block of mpc0 on a cell, cell dof
\* of mpc1's space on that cell), the second exactly the entries (cell dof of
\* mpc0's space on a cell, master block of mpc1 on that cell); nothing else
\* is inserted.
C10_RectangularTraversals ==
    /\ (ppc = "populate_cols" /\ mpc0 # mpc1) =>
          /\ Len(traversals) = 1
          /\ traversals[1] =
                UNION { MasterBlocksOfCell(M0, i) \X CellDofs(M1, i) : i \in Cells }
    /\ (Returned /\ mpc0 # mpc1) =>
          /\ Len(traversals) = 2
          /\ traversals[1] =
                UNION { MasterBlocksOfCell(M0, i) \X CellDofs(M1, i) : i \in Cells }
          /\ traversals[2] =
                UNION { CellDofs(M0, i) \X MasterBlocksOfCell(M1, i) : i \in Cells }
          /\ pattern = build_standard_pattern(M0, M1) \cup traversals[1] \cup traversals[2]

C10_Witness ==
    /\ Returned
    /\ mpc0 # mpc1
    /\ traversals[1] # {}
    /\ traversals[2] # {}
    /\ traversals[1] # traversals[2]
    /\ \E i \in Cells : Cardinality(MasterBlocksOfCell(M0, i)) > 1

\* ---------------------------------------------------- claims: create_matrix
\* C11: create_sparsity_pattern called with a form whose rank is not 2 throws
\* before it creates the pattern, reads either constraint or performs any
\* insertion; no pattern is returned.
C11_NonBilinearThrows ==
    form_rank # 2 =>
        /\ ppc \in { "start", "thrown" }
        /\ pattern = {}
        /\ traversals = <<>>
        /\ \A k \in 1 .. Len(events) : events[k] = "throw"
        /\ ~assembled
        /\ matrix.null

C11_Witness ==
    /\ form_rank = 3
    /\ ppc = "thrown"
    /\ events = << "throw" >>

\* Positions of an operation in the log of operations
EventIndices(e) == { k \in 1 .. Len(events) : events[k] = e }
Insertions == EventIndices("build_standard_pattern") \cup EventIndices("pattern_populator")

\* C12: in create_matrix all insertions into the pattern complete, then
\* pattern.assemble() is called exactly once, then the matrix is allocated
\* from the assembled pattern with the caller's type tag; no insertion happens
\* after the assemble call and the matrix is never allocated from an
\* unassembled pattern.
C12_AssembleBeforeAllocate ==
    /\ [](/\ Cardinality(EventIndices("assemble")) <= 1
          /\ assembled <=> EventIndices("assemble") # {}
          /\ \A k \in EventIndices("assemble") : \A j \in Insertions : j < k
          /\ ~matrix.null =>
                /\ matrix.from_assembled
                /\ matrix.pattern = pattern
                /\ matrix.type = type
                /\ Cardinality(EventIndices("assemble")) = 1
                /\ Cardinality(EventIndices("Matrix")) = 1
                /\ \A k \in EventIndices("Matrix") :
                      \A j \in EventIndices("assemble") : j < k)
    /\ [][assembled => pattern' = pattern]_vars

C12_Witness ==
    /\ ppc = "allocated"
    /\ type = "baij"
    /\ matrix.type = "baij"
    /\ Len(traversals) = 1
    /\ traversals[1] # {}
    /\ matrix.pattern # build_standard_pattern(M0, M1)

\* ------------------------------------------ claims: the two all-to-alls
PastAlltoalls(r) == pc[r] \in { "graph_forward", "graph_reverse", "done" }

\* C20: after the two all-to-all exchanges, on every rank r and for every rank
\* i, procs_with_masters[i] is 1 exactly when rank i's meshtags hold
\* master_marker and procs_with_slaves[i] is 1 exactly when rank i was called
\* with has_slave true; all ranks hold the same two vectors and no entry keeps
\* its placeholder value.
C20_AlltoallGathersFlags ==
    \A r \in Ranks :
        PastAlltoalls(r) =>
            /\ \A i \in Ranks :
                  /\ procs_with_masters[r][i] \in { 0, 1 }
                  /\ procs_with_slaves[r][i] \in { 0, 1 }
                  /\ procs_with_masters[r][i] = 1 <=> HasMaster(i)
                  /\ procs_with_slaves[r][i] = 1 <=> has_slave[i]
            /\ \A q \in Ranks :
                  PastAlltoalls(q) =>
                      /\ procs_with_masters[q] = procs_with_masters[r]
                      /\ procs_with_slaves[q] = procs_with_slaves[r]

C20_Witness ==
    /\ mpi_size >= 3
    /\ AllDone
    /\ \E i, j \in Ranks : HasMaster(i) /\ ~HasMaster(j)
    /\ \E i, j \in Ranks : has_slave[i] /\ ~has_slave[j]
    /\ \E i \in Ranks : HasMaster(i) /\ ~has_slave[i]
    /\ \A r \in Ranks : procs_with_masters[r] # procs_with_slaves[r]

\* ------------------------------------------ claims: block to facet map
FacetMapReturned == fpc = "returned"

\* The row of block b in the returned adjacency list
Row(b) == [k \in 1 .. (offsets[b + 1] - offsets[b]) |-> data[offsets[b] + k - 1]]
Blocks == 0 .. (space.num_dofs - 1)

\* Direct enumeration: the blocks of the closure of entity e, seen from its
\* first incident cell.
IncidentCell(e) == links(e_to_c, e)[1]
ClosureBlocks(e) ==
    LET c == IncidentCell(e)
        loc == entity_closure_dofs(space, find(links(c_to_e, c), e))
    IN { links(links(space.cell_dofs, c), loc[j]) : j \in 1 .. Len(loc) }

SingleCellInput == \A i \in 1 .. Len(entities) : Len(links(e_to_c, entities[i])) = 1

RECURSIVE SumClosure(_)
SumClosure(i) ==
    IF i = 0 THEN 0 ELSE Cardinality(ClosureBlocks(entities[i])) + SumClosure(i - 1)

\* C13: for an entity list whose entities each have exactly one incident
\* cell, the number of links of the returned map is the sum over the input
\* entities of the number of their closure blocks, and every (block, entity)
\* pair appears in the block's row exactly as many times as the direct
\* enumeration of entities and closure blocks produces it.
C13_TwoPassCounts ==
    (FacetMapReturned /\ SingleCellInput) =>
        /\ DOMAIN data = 0 .. (SumClosure(Len(entities)) - 1)
        /\ offsets[space.num_dofs] = SumClosure(Len(entities))
        /\ \A b \in Blocks : \A e \in Facets :
              Cardinality({ k \in 1 .. Len(Row(b)) : Row(b)[k] = e })
                = Cardinality({ i \in 1 .. Len(entities) :
                                   entities[i] = e /\ b \in ClosureBlocks(e) })

C13_Witness ==
    /\ FacetMapReturned
    /\ SingleCellInput
    /\ space = P1GhostSpace
    /\ Len(entities) = 3
    /\ entities[1] = entities[3]
    /\ entities[1] # entities[2]
    /\ \E b \in Blocks : Len(Row(b)) = 3
    /\ \E b \in Blocks : Len(Row(b)) = 0

InputDupFree == \A i, j \in 1 .. Len(entities) : entities[i] = entities[j] => i = j
RowsDupFree ==
    \A b \in Blocks : \A k, l \in 1 .. Len(Row(b)) : Row(b)[k] = Row(b)[l] => k = l

\* C14 as stated: in the returned map every block's entity list is free of
\* duplicates if and only if the input entity list had no duplicates, for
\* every input list, including lists whose entities have an empty closure.
C14_Original == FacetMapReturned => (RowsDupFree <=> InputDupFree)

\* C14 as the code has it: every block's entity list is free of duplicates if
\* and only if no entity with a non-empty closure occurs twice in the input.
C14_DuplicatesPropagate ==
    FacetMapReturned =>
        (RowsDupFree <=>
            \A i, j \in 1 .. Len(entities) :
                (entities[i] = entities[j] /\ ClosureBlocks(entities[i]) # {}) => i = j)

C14_Witness ==
    /\ FacetMapReturned
    /\ space = DG0Space
    /\ ~InputDupFree
    /\ RowsDupFree
    /\ Len(entities) = 3

\* C15: create_block_to_facet_map fails fatally and never returns a map when
\* some input entity has a number of incident cells other than one; the
\* failure occurs at that entity in the first pass, before offsets or data are
\* built.
C15_MultiCellEntityIsFatal ==
    (\E i \in 1 .. Len(entities) : Len(links(e_to_c, entities[i])) # 1) =>
        /\ fpc \in { "pass1", "aborted" }
        /\ offsets = <<>>
        /\ data = <<>>
        /\ (fpc = "aborted" => Len(links(e_to_c, links(entities, fi))) # 1)
        /\ \A i \in 1 .. fi : Len(links(e_to_c, entities[i])) = 1

\* -------------------------------------- claims: owner to ghost communicator
EdgesBuilt(r) == opc[r] \in { "graph", "done" }

\* The global block behind a local index of rank r
GlobalOf(r, i) ==
    IF i < size_local(r) THEN owned_blocks(r)[i + 1]
    ELSE ghosted_blocks(r)[i - size_local(r) + 1]

\* C16: on each rank the source-edge list is exactly the set of owners of the
\* blocks in ghost_blocks and the destination-edge list is exactly the union
\* of dest_ranks(b) over the blocks b in local_blocks; each rank occurs at most
\* once in each list, whatever the multiplicity or order of the input blocks.
C16_EdgeListsAreSets ==
    \A r \in OgRanks :
        EdgesBuilt(r) =>
            /\ Range(og_source_edges[r]) =
                  { owner[GlobalOf(r, ghost_blocks[r][k])] : k \in 1 .. Len(ghost_blocks[r]) }
            /\ Range(og_dest_edges[r]) =
                  UNION { ghosters[GlobalOf(r, local_blocks[r][k])]
                          : k \in 1 .. Len(local_blocks[r]) }
            /\ Len(og_source_edges[r]) = Cardinality(Range(og_source_edges[r]))
            /\ Len(og_dest_edges[r]) = Cardinality(Range(og_dest_edges[r]))

C16_Witness ==
    \E r \in OgRanks :
        /\ opc[r] = "done"
        /\ Len(og_source_edges[r]) = 2
        /\ ghost_blocks[r][1] > ghost_blocks[r][2]
        /\ \E q \in OgRanks :
              /\ opc[q] = "done"
              /\ Len(local_blocks[q]) = 2
              /\ local_blocks[q][1] = local_blocks[q][2]
              /\ Len(og_dest_edges[q]) = 2

\* ------------------------------------------ claims: normal approximation
OwnedBlocks(r) == 0 .. (imap(r).size_local - 1)
Normalised(r) == npc[r] \in { "scatter_forward", "done" }

\* C18: in the normalisation step every owned block whose accumulated
\* magnitude is not above the 1e-10 threshold keeps its components exactly as
\* they were, no error is raised for it, and only blocks above the threshold
\* are divided.
C18_BelowThresholdKept ==
    [][\A r \in NormalRanks :
          (npc[r] = "normalise" /\ npc'[r] # "normalise") =>
              /\ npc'[r] = "scatter_forward"
              /\ \A i \in OwnedBlocks(r) :
                    LET acc == acc_loop(1, nh[r][i])
                    IN /\ acc <= threshold => nh'[r][i] = nh[r][i]
                       /\ acc > threshold =>
                             nh'[r][i] = [num |-> nh[r][i].num, den |-> acc]]_vars

C18_Witness ==
    /\ Normalised(0)
    /\ nh[0][1] = [num |-> <<10, 0>>, den |-> 1]
    /\ normals[0][1] = <<-10, 0>>
    /\ nh[0][0].den > threshold

\* ------------------------------------------------- claims: the two queries
\* The inputs the claim lists as unsupported
Unsupported ==
    \/ /\ query = "tabulate_dof_coordinates"
       /\ (~qarg.component_empty \/ qarg.is_mixed \/ ~qarg.interpolation_ident)
    \/ /\ query = "evaluate_basis_functions"
       /\ \/ qarg.num_points # qarg.num_cells
          \/ /\ qarg.element.num_sub_elements > 1
             /\ qarg.element.num_sub_elements # qarg.element.bs_element

\* C19: unsupported queries are rejected by throwing before any result is
\* computed: tabulate_dof_coordinates when the space is a subspace, its
\* element is mixed or has no pointwise evaluation; evaluate_basis_functions
\* when the number of points differs from the number of cells or the element
\* is a mixed element whose sub-element count differs from its block size. In
\* none of these cases is a partial result returned.
C19_UnsupportedQueriesThrow ==
    /\ Unsupported =>
          /\ qpc \in { "start", "check_mixed", "check_interpolation", "thrown" }
          /\ result.null
    /\ qpc = "thrown" => Unsupported /\ result.null

C19_Witness ==
    /\ query = "evaluate_basis_functions"
    /\ qpc = "thrown"
    /\ qarg.num_points = qarg.num_cells
    /\ qarg.num_points > 0
    /\ qarg.element = [num_sub_elements |-> 2, bs_element |-> 1]
    /\ result.null

\* --------------------------------- claims: consistency of the adjacency
\* The lists rank r hands to the creation of topology c (1 forward, 2 reverse)
Handed(r, c) ==
    IF c = 1 THEN forward_graph(source_edges[r], dest_edges[r])
    ELSE reverse_graph(source_edges[r], dest_edges[r])

\* C21: the adjacency handed to the graph creation by create_neighborhood_comms
\* is globally consistent: for every pair of ranks i and r and for each of the
\* two communicators, i is in rank r's source list if and only if r is in rank
\* i's destination list, for every assignment of the booleans.
C21_AdjacencyConsistent ==
    \A i, r \in Ranks :
        (PastAlltoalls(i) /\ PastAlltoalls(r)) =>
            \A c \in 1 .. 2 :
                i \in Range(Handed(r, c).sources) <=> r \in Range(Handed(i, c).destinations)

C21_Witness ==
    /\ mpi_size >= 3
    /\ AllDone
    /\ \E i, r \in Ranks :
          /\ i \in Range(Handed(r, 1).sources)
          /\ r \in Range(Handed(i, 1).destinations)
          /\ r \notin Range(Handed(i, 1).sources)
          /\ r \in Range(Handed(i, 2).sources)
    /\ \E i, r \in Ranks : i # r /\ i \notin Range(Handed(r, 1).sources)
                                 /\ i \notin Range(Handed(r, 2).sources)

\* ------------------------------------- claims: the extension only adds
\* The constraint traversed by the t-th pattern_populator call and the
\* constraint whose function space gives the cell dofs
Traversed(t) == IF t = 1 THEN M0 ELSE M1
OffAxis(t) == IF t = 1 THEN M1 ELSE M0
Extending == ppc \in { "populate", "populate_cols", "done", "assembled", "allocated" }

\* The entries a cell with slaves may contribute in a traversal
CellExtension(m, off, i) ==
    LET mb == MasterBlocksOfCell(m, i)
    IN (mb \X CellDofs(off, i)) \cup (CellDofs(off, i) \X mb) \cup (mb \X mb)

\* C22: the extension step of create_sparsity_pattern only adds entries:
\* every entry of the standard pattern remains in the result, and a cell
\* whose slave list is empty in the traversed constraint contributes no entry
\* beyond the standard pattern.
C22_ExtensionOnlyAdds ==
    /\ [](Extending =>
            /\ build_standard_pattern(M0, M1) \subseteq pattern
            /\ \A t \in 1 .. Len(traversals) :
                  /\ traversals[t] \subseteq pattern
                  /\ \A e \in traversals[t] :
                        \E i \in Cells :
                            /\ CellSlaves(Traversed(t), i) # {}
                            /\ e \in CellExtension(Traversed(t), OffAxis(t), i)
            /\ (\A t \in 1 .. 2 : \A i \in Cells : CellSlaves(Traversed(t), i) = {})
                  => pattern = build_standard_pattern(M0, M1))
    /\ [][pattern \subseteq pattern']_vars

C22_Witness ==
    /\ Returned
    /\ mpc0 # mpc1
    /\ \E i \in Cells : CellSlaves(M0, i) = {} /\ CellSlaves(M1, i) # {}
    /\ \E i \in Cells : CellSlaves(M0, i) # {} /\ MasterBlocksOfCell(M0, i) # {}
    /\ pattern # build_standard_pattern(M0, M1)
    /\ traversals[2] \ build_standard_pattern(M0, M1) # {}

\* --------------------------------------------- claims: the CSR structure
\* The entities of the input whose closure holds block b, in input order
EntitiesOf(b) == SelectSeq(entities, LAMBDA e : b \in ClosureBlocks(e))

\* C23: offsets has one entry per block (owned plus ghost) plus one, starts at
\* 0, is non-decreasing and ends at the length of data; at the end of the
\* second pass each block's write cursor equals its count of the first pass,
\* so every data slot is written exactly once, no write lands outside the
\* block's own row, and each row lists its entities in input order.
C23_CsrStructure ==
    /\ fpc \in { "pass2", "returned" } =>
          /\ DOMAIN offsets = 0 .. space.num_dofs
          /\ offsets[0] = 0
          /\ \A b \in Blocks : offsets[b] <= offsets[b + 1]
          /\ DOMAIN data = 0 .. (offsets[space.num_dofs] - 1)
          /\ \A k \in 1 .. Len(writes) :
                /\ writes[k].slot >= offsets[writes[k].dof]
                /\ writes[k].slot < offsets[writes[k].dof + 1]
          /\ \A k, l \in 1 .. Len(writes) : writes[k].slot = writes[l].slot => k = l
    /\ FacetMapReturned =>
          /\ \A b \in Blocks : num_facets_per_dof[b] = offsets[b + 1] - offsets[b]
          /\ \A slot \in DOMAIN data :
                Cardinality({ k \in 1 .. Len(writes) : writes[k].slot = slot }) = 1
          /\ \A b \in Blocks : Row(b) = EntitiesOf(b)

C23_Witness ==
    /\ FacetMapReturned
    /\ space = P1GhostSpace
    /\ Len(entities) = 3
    /\ entities[1] > entities[2]
    /\ entities[1] = entities[3]
    /\ \E b \in Blocks : Row(b) = entities
    /\ \E b \in Blocks : Len(Row(b)) = 1
    /\ \E b \in Blocks : Len(Row(b)) = 0 /\ offsets[b] = offsets[b + 1]

\* ------------------------------- claims: agreement of the owner-ghost edges
\* Rank r passes all its owned blocks that have remote ghosts as local_blocks
\* and all its ghost blocks as ghost_blocks.
PassesAllBlocks(r) ==
    /\ Range(local_blocks[r]) =
          { i \in 0 .. (size_local(r) - 1) : ghosters[GlobalOf(r, i)] # {} }
    /\ Range(ghost_blocks[r]) =
          size_local(r) .. (size_local(r) + Len(owners(r)) - 1)

\* C24: when every rank passes all of its owned blocks that have remote
\* ghosts as local_blocks and all of its ghost blocks as ghost_blocks, the
\* edge lists built by create_owner_to_ghost_comm agree across ranks: rank q
\* lists rank r as a source if and only if rank r lists rank q as a
\* destination, and no rank lists itself.
C24_EdgeListsAgree ==
    (\A r \in OgRanks : PassesAllBlocks(r)) =>
        \A q, r \in OgRanks :
            (EdgesBuilt(q) /\ EdgesBuilt(r)) =>
                /\ r \in Range(og_source_edges[q]) <=> q \in Range(og_dest_edges[r])
                /\ r \notin Range(og_source_edges[r])
                /\ r \notin Range(og_dest_edges[r])

C24_Witness ==
    /\ \A r \in OgRanks : PassesAllBlocks(r) /\ opc[r] = "done"
    /\ \E r \in OgRanks : Len(og_dest_edges[r]) = 2
    /\ \E r \in OgRanks : og_source_edges[r] # <<>> /\ og_dest_edges[r] # <<>>
    /\ \E q, r \in OgRanks : q # r /\ r \notin Range(og_source_edges[q])
                                   /\ q \in Range(og_source_edges[r])

\* ------------------------------------------ claims: block to cell map
\* The cells of the rank, owned and ghost, whose dofs contain block b.
CellsWith(b) ==
    { c \in 0 .. (Len(cspace.cell_dofs) - 1) : b \in Range(links(cspace.cell_dofs, c)) }

\* C25: the list returned by create_block_to_cell_map has the length and the
\* order of blocks, and for every block of the index map that is passed in
\* the returned cell is the lowest-index cell, owned or ghost, whose dofs
\* contain the block.
C25_LowestContainingCell ==
    cpc = "returned" =>
        /\ Len(cells_out) = Len(blocks_in)
        /\ \A k \in 1 .. Len(blocks_in) :
              /\ cells_out[k] \in CellsWith(blocks_in[k])
              /\ \A c \in CellsWith(blocks_in[k]) : cells_out[k] <= c

\* ------------------------------- claims: order of the ghost synchronisation
GhostBlocks(r) == LocalBlocks(r) \ OwnedBlocks(r)
OwnerOf(r, i) == imap(r).ghosts[i - imap(r).size_local + 1]
StepOrder ==
    { <<"start", "scatter_reverse">>, <<"scatter_reverse", "normalise">>,
      <<"normalise", "scatter_forward">>, <<"scatter_forward", "done">> }
\* The ghost copies <<rank, local index>> of owned block i of rank r, and the
\* sum of their component j.
CopiesOf(r, i) ==
    { c \in NormalRanks \X (0 .. 2) :
        /\ c[2] \in GhostBlocks(c[1])
        /\ OwnerOf(c[1], c[2]) = [owner |-> r, index |-> i] }
RECURSIVE GhostSum(_, _)
GhostSum(copies, j) ==
    IF copies = {} THEN 0
    ELSE LET c == CHOOSE x \in copies : TRUE
         IN nh[c[1]][c[2]].num[j] + GhostSum(copies \ {c}, j)
ForwardBegun == \E q \in NormalRanks : npc[q] = "done"

\* C26: on every rank of create_normal_approximation the steps are local
\* accumulation, the reverse scatter that adds the ghost contributions into
\* the owner, the normalisation of owned blocks only, then the forward
\* scatter from owner to ghosts, and a step of a rank writes that rank's
\* array only. On return every ghost copy of a block equals the value held
\* by the rank that owns the block, and no owned value changes once the
\* forward scatter has begun.
C26_GhostSynchronisation ==
    /\ [](\A r \in NormalRanks :
             npc[r] = "done" =>
                 \A i \in GhostBlocks(r) :
                     nh[r][i] = nh[OwnerOf(r, i).owner][OwnerOf(r, i).index])
    /\ [][\A r \in NormalRanks :
             /\ npc'[r] # npc[r] =>
                   /\ <<npc[r], npc'[r]>> \in StepOrder
                   /\ \A q \in NormalRanks \ {r} : nh'[q] = nh[q]
                   /\ npc[r] = "scatter_reverse" =>
                         /\ \A i \in GhostBlocks(r) : nh'[r][i] = nh[r][i]
                         /\ \A i \in OwnedBlocks(r) :
                               \A j \in 1 .. 2 :
                                   nh'[r][i].num[j] - nh[r][i].num[j] =
                                      GhostSum(CopiesOf(r, i), j)
                   /\ npc[r] = "normalise" =>
                         \A i \in GhostBlocks(r) : nh'[r][i] = nh[r][i]
                   /\ npc[r] = "scatter_forward" =>
                         \A i \in GhostBlocks(r) :
                             nh'[r][i] = nh[OwnerOf(r, i).owner][OwnerOf(r, i).index]
             /\ (ForwardBegun \/ npc'[r] = "done") =>
                   \A q \in NormalRanks : \A i \in OwnedBlocks(q) : nh'[q][i] = nh[q][i]]_vars

C26_Witness ==
    /\ \A r \in NormalRanks : npc[r] = "done"
    /\ nh[1][1] = nh[0][1] /\ nh[2][0] = nh[0][1]
    /\ nh[0][1].den > 1
    /\ normals[1][1] # normals[2][0]
    /\ nh[0][1].num # normals[0][1] /\ nh[0][1].num # normals[1][1]
    /\ nh[0][2] = nh[1][0] /\ nh[0][2].num # normals[0][2]

====
